---- MODULE Spec2Model ----
(***************************************************************************)
(* Model of @tessen/type-gen (src/src/index.ts): the placeholder parser,   *)
(* the signature renderer, the tree merger, the declaration emitter and    *)
(* the orchestrator.                                                       *)
(*                                                                         *)
(* Text is modelled literally: a JavaScript string is a sequence of        *)
(* one-character strings, so "{0}" is <<"{", "0", "}">> and a line break   *)
(* is the element "\n".                                                    *)
(***************************************************************************)
EXTENDS Integers, Sequences, FiniteSets, TLC

VARIABLES
    value,          \* extractParameters / generateFunctionSignature: the template
    parameters,     \* the ExtractedParameter[] returned by extractParameters(value)
    signature,      \* the string returned by generateFunctionSignature(value)
    parsePc,        \* "start" -> "extracted" -> "signed"
    localeDataArray,\* mergeLocaleData: the trees to merge, in order
    merged,         \* mergeLocaleData: the accumulator
    before,         \* the accumulator as it was before the latest deepMerge call
    mergeIdx,       \* mergeLocaleData: how many trees have been merged
    firstSeen,      \* the root keys in the order deepMerge first met them
    body,           \* processLocaleData(merged)
    mergePc,        \* "idle" | "merging" -> "rendered"
    tessens,        \* generateLocalizationTypes: config.tessens
    declarations,   \* generateLocalizationTypes: the declarations pushed so far
    genIdx,         \* generateLocalizationTypes: the loop variable i
    output,         \* the string generateLocalizationTypes returns
    genPc,          \* "idle" | "looping" -> "returned"
    run,            \* "first" | "second": which call of generateLocalizationTypes this is
    firstOutput,    \* the string the first call returned
    contentValue,   \* fallback: the ContentValue of the first language of a locale
    extractedData,  \* fallback: the plainData extracted from contentValue
    fallbackBody,   \* fallback: the body rendered from extractedData merged into {}
    normPc,         \* "idle" | "start" -> "extracted" -> "rendered"
    heap,           \* the objects allocated, by address: the trees as JavaScript holds them
    inputRoots,     \* the addresses of the trees handed to mergeLocaleData
    inputTrees,     \* the trees as they were when they were handed over
    accRoot,        \* the address of the accumulator (0: not yet created)
    heapIdx,        \* how many trees have been merged into the accumulator
    heapPc,         \* "idle" | "start" -> "merging"
    watchOpt,       \* cli: options.watch
    proc,           \* cli: "idle" | "running" -> "done" | "exited0" | "exited1"
    started,        \* cli: how many calls of performTypeGeneration have begun
    inFlight,       \* cli: the calls suspended at `await import(...)`
    file,           \* cli: the text of the output file (empty: not written yet)
    writes,         \* cli: the writeFileSync calls made, in order
    reported,       \* cli: the calls that reported an error with console.error
    watcherOn,      \* cli: the chokidar watcher has been set up
    regenerateTimeout, \* cli: the variable of that name (0: null), a timer handle
    pendingTimers,  \* cli: the timers set and neither fired nor cleared
    events,         \* cli: how many file events the watcher has delivered
    bursts,         \* cli: how many of them came when no timer was pending
    moduleCache     \* cli: the Set of module paths of that name

parseVars == <<value, parameters, signature, parsePc>>

mergeVars == <<localeDataArray, merged, before, mergeIdx, firstSeen, body, mergePc>>

genVars == <<tessens, declarations, genIdx, output, genPc, run, firstOutput>>

normVars == <<contentValue, extractedData, fallbackBody, normPc>>

heapVars == <<heap, inputRoots, inputTrees, accRoot, heapIdx, heapPc>>

cliVars == <<watchOpt, proc, started, inFlight, file, writes, reported, watcherOn,
             regenerateTimeout, pendingTimers, events, bursts, moduleCache>>

vars == <<parseVars, mergeVars, genVars, normVars, heapVars, cliVars>>

(***************************************************************************)
(* Generic helpers                                                         *)
(***************************************************************************)
Max(S) == CHOOSE x \in S : \A y \in S : y <= x

Min(S) == CHOOSE x \in S : \A y \in S : x <= y

Range(s) == {s[i] : i \in 1..Len(s)}

RECURSIVE Concat(_)
\* The concatenation of a sequence of character sequences.
Concat(ss) == IF ss = <<>> THEN <<>> ELSE Head(ss) \o Concat(Tail(ss))

RECURSIVE join(_, _)
\* Array.prototype.join: the elements separated by sep, "" for the empty array.
join(ss, sep) ==
    IF ss = <<>> THEN <<>>
    ELSE IF Len(ss) = 1 THEN ss[1]
    ELSE ss[1] \o sep \o join(Tail(ss), sep)

(***************************************************************************)
(* extractParameters (index.ts 21-44)                                      *)
(***************************************************************************)
\* The characters \d matches.
Digit == {"0", "1", "2", "3", "4", "5", "6", "7", "8", "9"}

\* The last position of the greedy run \d+ that starts at position i
\* (i - 1 when value[i] is no digit).
DigitRunEnd(v, i) ==
    LET ends == {j \in i..Len(v) : \A k \in i..j : v[k] \in Digit}
    IN  IF ends = {} THEN i - 1 ELSE Max(ends)

\* The last position of the greedy run [^}]+ that starts at position i
\* (i - 1 when it is empty).
LabelRunEnd(v, i) ==
    LET ends == {j \in i..Len(v) : \A k \in i..j : v[k] # "}"}
    IN  IF ends = {} THEN i - 1 ELSE Max(ends)

NoMatch == [found |-> FALSE, start |-> 0, end |-> 0, index |-> <<>>, label |-> <<>>]

\* MatchAt with the label written [^}]* : an empty label takes part.
MatchAtEmptyLabel(v, s) ==
    IF s > Len(v) \/ v[s] # "{" THEN NoMatch
    ELSE LET d == DigitRunEnd(v, s + 1)
             l == LabelRunEnd(v, d + 2)
         IN  IF d < s + 1 \/ d + 1 > Len(v) THEN NoMatch
             ELSE IF v[d + 1] = ":" /\ l + 1 <= Len(v)
                  THEN [found |-> TRUE, start |-> s, end |-> l + 1,
                        index |-> SubSeq(v, s + 1, d),
                        label |-> SubSeq(v, d + 2, l)]
             ELSE IF v[d + 1] = "}"
                  THEN [found |-> TRUE, start |-> s, end |-> d + 1,
                        index |-> SubSeq(v, s + 1, d), label |-> <<>>]
             ELSE NoMatch

\* /\{(\d+)(?::([^}]+))?\}/ anchored at position s (1-based) of v.
\* index is capture group 1; label is capture group 2, <<>> when the group
\* did not take part (it is never empty when it did).
MatchAt(v, s) ==
    IF s > Len(v) \/ v[s] # "{" THEN NoMatch
    ELSE LET d == DigitRunEnd(v, s + 1)
             l == LabelRunEnd(v, d + 2)
         IN  IF d < s + 1 \/ d + 1 > Len(v) THEN NoMatch
             ELSE IF v[d + 1] = ":" /\ l >= d + 2 /\ l + 1 <= Len(v)
                  THEN [found |-> TRUE, start |-> s, end |-> l + 1,
                        index |-> SubSeq(v, s + 1, d),
                        label |-> SubSeq(v, d + 2, l)]
             ELSE IF v[d + 1] = "}"
                  THEN [found |-> TRUE, start |-> s, end |-> d + 1,
                        index |-> SubSeq(v, s + 1, d), label |-> <<>>]
             ELSE NoMatch

\* paramRegex.exec(value) with the g flag: the leftmost match that starts at
\* or after lastIndex (0-based, so position lastIndex + 1), or null.
RegexExec(v, lastIndex) ==
    LET starts == {s \in (lastIndex + 1)..Len(v) : MatchAt(v, s).found}
    IN  IF starts = {} THEN NoMatch ELSE MatchAt(v, Min(starts))

\* const paramName = match[2] || `_${index}`;
ParamName(m) == IF m.label # <<>> THEN m.label ELSE <<"_">> \o m.index

StringType == <<"s", "t", "r", "i", "n", "g">>

RECURSIVE ExtractLoopUnshift(_, _, _, _)
\* ExtractLoop with parameters.unshift in place of parameters.push.
ExtractLoopUnshift(v, lastIndex, params, seen) ==
    LET m == RegexExec(v, lastIndex)
    IN  IF ~m.found THEN params
        ELSE LET paramName == ParamName(m)
             IN  IF paramName \notin seen
                 THEN ExtractLoopUnshift(v, m.end,
                          <<[name |-> paramName, type |-> StringType]>> \o params,
                          seen \cup {paramName})
                 ELSE ExtractLoopUnshift(v, m.end, params, seen)

RECURSIVE ExtractLoopNoDedup(_, _, _, _)
\* ExtractLoop without the seen check: every match is pushed.
ExtractLoopNoDedup(v, lastIndex, params, seen) ==
    LET m == RegexExec(v, lastIndex)
    IN  IF ~m.found THEN params
        ELSE ExtractLoopNoDedup(v, m.end,
                 Append(params, [name |-> ParamName(m), type |-> StringType]),
                 seen)

RECURSIVE ExtractLoop(_, _, _, _)
\* The while loop of extractParameters: one iteration per match.
ExtractLoop(v, lastIndex, params, seen) ==
    LET m == RegexExec(v, lastIndex)
    IN  IF ~m.found THEN params
        ELSE LET paramName == ParamName(m)
             IN  IF paramName \notin seen
                 THEN ExtractLoop(v, m.end,
                                  Append(params, [name |-> paramName, type |-> StringType]),
                                  seen \cup {paramName})
                 ELSE ExtractLoop(v, m.end, params, seen)

extractParameters(v) == ExtractLoop(v, 0, <<>>, {})

(***************************************************************************)
(* generateFunctionSignature (index.ts 49-58)                              *)
(***************************************************************************)
\* ParamString without the type: `${param.name}`.
ParamStringNoType(param) == param.name

ParamString(param) == param.name \o <<":", " ">> \o param.type

generateFunctionSignature(v) ==
    LET params == extractParameters(v)
        paramStrings == [i \in 1..Len(params) |-> ParamString(params[i])]
    IN  IF Len(params) = 0
        THEN <<"(", ")", " ", "=", ">", " ", "s", "t", "r", "i", "n", "g">>
        ELSE <<"(">> \o join(paramStrings, <<",", " ">>)
                 \o <<")", " ", "=", ">", " ", "s", "t", "r", "i", "n", "g">>

(***************************************************************************)
(* PlainLocaleData: a tree of JavaScript objects and strings               *)
(*                                                                         *)
(* A node is a string (a Leaf) or a plain object (a Branch).  An object    *)
(* is the sequence of its own properties in the order Object.entries       *)
(* yields them: the array-index keys ("0", "7", "10") in ascending numeric *)
(* order, then every other key in the order of its creation.  The keys     *)
(* modelled are own properties only (no key names a member of              *)
(* Object.prototype).                                                      *)
(***************************************************************************)
Leaf(str) == [kind |-> "string", str |-> str, entries |-> <<>>]

Object(entries) == [kind |-> "object", str |-> <<>>, entries |-> entries]

EmptyObject == Object(<<>>)

DigitValue(c) == CHOOSE n \in 0..9 : <<"0", "1", "2", "3", "4", "5", "6", "7", "8", "9">>[n + 1] = c

\* Decimal numerals without leading zeros compared as numbers: the shorter is
\* the smaller, and two of one length compare digit by digit.
NumericLess(k1, k2) ==
    \/ Len(k1) < Len(k2)
    \/ /\ Len(k1) = Len(k2)
       /\ \E i \in 1..Len(k1) :
            /\ DigitValue(k1[i]) < DigitValue(k2[i])
            /\ \A j \in 1..(i - 1) : k1[j] = k2[j]

\* 2^32 - 2, the largest array index
MaxArrayIndex == <<"4", "2", "9", "4", "9", "6", "7", "2", "9", "4">>

\* An array index: the canonical decimal form of an integer in 0 .. 2^32 - 2.
IsArrayIndex(key) ==
    /\ key # <<>>
    /\ \A i \in 1..Len(key) : key[i] \in Digit
    /\ Len(key) = 1 \/ key[1] # "0"
    /\ key = MaxArrayIndex \/ NumericLess(key, MaxArrayIndex)

\* Object.keys(obj)
KeysOf(obj) == [i \in 1..Len(obj.entries) |-> obj.entries[i].key]

\* key in obj
HasKey(obj, key) == \E i \in 1..Len(obj.entries) : obj.entries[i].key = key

\* obj[key], for a key obj has
Get(obj, key) ==
    obj.entries[CHOOSE i \in 1..Len(obj.entries) : obj.entries[i].key = key].val

\* obj[key] = val, where an assignment to an existing key deletes the property
\* and creates it again.
SetPropMoving(obj, key, val) ==
    LET kept == SelectSeq(obj.entries, LAMBDA e : e.key # key)
        n == Len(kept)
        e == [key |-> key, val |-> val]
    IN  IF IsArrayIndex(key)
        THEN LET below == Cardinality({i \in 1..n :
                              /\ IsArrayIndex(kept[i].key)
                              /\ NumericLess(kept[i].key, key)})
             IN  Object(SubSeq(kept, 1, below) \o <<e>> \o SubSeq(kept, below + 1, n))
        ELSE Object(Append(kept, e))

\* obj[key] = val: an existing property keeps its place; a new array-index key
\* is placed among the array-index keys by its number, any other new key last.
SetProp(obj, key, val) ==
    LET n == Len(obj.entries)
        e == [key |-> key, val |-> val]
    IN  IF HasKey(obj, key)
        THEN Object([i \in 1..n |-> IF obj.entries[i].key = key THEN e ELSE obj.entries[i]])
        ELSE IF IsArrayIndex(key)
        THEN LET below == Cardinality({i \in 1..n :
                              /\ IsArrayIndex(obj.entries[i].key)
                              /\ NumericLess(obj.entries[i].key, key)})
             IN  Object(SubSeq(obj.entries, 1, below) \o <<e>>
                            \o SubSeq(obj.entries, below + 1, n))
        ELSE Object(Append(obj.entries, e))

(***************************************************************************)
(* deepMerge (index.ts 97-108) and mergeLocaleData (index.ts 84-92)        *)
(***************************************************************************)
RECURSIVE DeepMergeFromKeepFirst(_, _, _)
\* DeepMergeFrom where a Leaf is assigned only to a key target lacks.
DeepMergeFromKeepFirst(target, source, i) ==
    IF i > Len(source.entries) THEN target
    ELSE LET key == source.entries[i].key
             val == source.entries[i].val
         IN  IF val.kind = "object"
             THEN LET t1 == IF ~HasKey(target, key) \/ Get(target, key).kind # "object"
                            THEN SetProp(target, key, EmptyObject)
                            ELSE target
                      t2 == SetProp(t1, key, DeepMergeFromKeepFirst(Get(t1, key), val, 1))
                  IN  DeepMergeFromKeepFirst(t2, source, i + 1)
             ELSE DeepMergeFromKeepFirst(
                      IF HasKey(target, key) THEN target ELSE SetProp(target, key, val),
                      source, i + 1)

RECURSIVE DeepMergeFromNoReplace(_, _, _)
\* DeepMergeFrom without the typeof test: a Leaf in target is not replaced by
\* an empty Branch, and the properties merged into the string are lost.
DeepMergeFromNoReplace(target, source, i) ==
    IF i > Len(source.entries) THEN target
    ELSE LET key == source.entries[i].key
             val == source.entries[i].val
         IN  IF val.kind = "object"
             THEN LET t1 == IF ~HasKey(target, key)
                            THEN SetProp(target, key, EmptyObject)
                            ELSE target
                      t2 == IF Get(t1, key).kind # "object" THEN t1
                            ELSE SetProp(t1, key,
                                     DeepMergeFromNoReplace(Get(t1, key), val, 1))
                  IN  DeepMergeFromNoReplace(t2, source, i + 1)
             ELSE DeepMergeFromNoReplace(SetProp(target, key, val), source, i + 1)

RECURSIVE DeepMergeFromShallow(_, _, _)
\* DeepMergeFrom as a shallow merge: target[key] = value for every value.
DeepMergeFromShallow(target, source, i) ==
    IF i > Len(source.entries) THEN target
    ELSE DeepMergeFromShallow(
             SetProp(target, source.entries[i].key, source.entries[i].val),
             source, i + 1)

RECURSIVE DeepMergeFrom(_, _, _)
\* The for loop of deepMerge from the i-th entry of source on; the result is
\* target as the loop leaves it.
DeepMergeFrom(target, source, i) ==
    IF i > Len(source.entries) THEN target
    ELSE LET key == source.entries[i].key
             val == source.entries[i].val
         IN  IF val.kind = "object"
             THEN LET t1 == IF ~HasKey(target, key) \/ Get(target, key).kind # "object"
                            THEN SetProp(target, key, EmptyObject)
                            ELSE target
                      t2 == SetProp(t1, key, DeepMergeFrom(Get(t1, key), val, 1))
                  IN  DeepMergeFrom(t2, source, i + 1)
             ELSE DeepMergeFrom(SetProp(target, key, val), source, i + 1)

deepMerge(target, source) == DeepMergeFrom(target, source, 1)

RECURSIVE MergeFrom(_, _, _)
MergeFrom(acc, list, i) ==
    IF i > Len(list) THEN acc ELSE MergeFrom(deepMerge(acc, list[i]), list, i + 1)

mergeLocaleData(list) == MergeFrom(EmptyObject, list, 1)

(***************************************************************************)
(* deepMerge on objects with an identity                                   *)
(*                                                                         *)
(* The heap is a sequence of objects and an address is an index into it.   *)
(* A property holds a string or the address of an object.                  *)
(***************************************************************************)
HeapString(str) == [kind |-> "string", str |-> str, addr |-> 0]

HeapRef(addr) == [kind |-> "object", str |-> <<>>, addr |-> addr]

RECURSIVE AllocateFrom(_, _, _, _)
\* The heap after the properties of tree from the i-th on have been created on
\* the object at addr, every Branch as a new object.
AllocateFrom(h, addr, tree, i) ==
    IF i > Len(tree.entries) THEN h
    ELSE LET key == tree.entries[i].key
             val == tree.entries[i].val
         IN  IF val.kind = "object"
             THEN LET child == Len(h) + 1
                      h1 == AllocateFrom(Append(h, EmptyObject), child, val, 1)
                  IN  AllocateFrom([h1 EXCEPT ![addr] = SetProp(@, key, HeapRef(child))],
                                   addr, tree, i + 1)
             ELSE AllocateFrom([h EXCEPT ![addr] = SetProp(@, key, HeapString(val.str))],
                               addr, tree, i + 1)

RECURSIVE AllocateAll(_, _, _)
\* The heap and the root addresses after the trees from the i-th on have been
\* created, each as objects of its own.
AllocateAll(state, trees, i) ==
    IF i > Len(trees) THEN state
    ELSE LET root == Len(state.heap) + 1
         IN  AllocateAll([heap |-> AllocateFrom(Append(state.heap, EmptyObject),
                                                root, trees[i], 1),
                          roots |-> Append(state.roots, root)],
                         trees, i + 1)

RECURSIVE HeapDeepMerge(_, _, _)

RECURSIVE HeapDeepMergeFromSharing(_, _, _, _)
\* HeapDeepMergeFrom where a Branch that target lacks is assigned as it is
\* (target[key] = value) instead of being merged into a new {}.
HeapDeepMergeFromSharing(h, target, entries, i) ==
    IF i > Len(entries) THEN h
    ELSE LET key == entries[i].key
             val == entries[i].val
         IN  IF val.kind = "object"
             THEN LET fresh == \/ ~HasKey(h[target], key)
                               \/ Get(h[target], key).kind # "object"
                      h1 == IF fresh
                            THEN [h EXCEPT ![target] = SetProp(@, key, val)]
                            ELSE h
                      h2 == HeapDeepMerge(h1, Get(h1[target], key).addr, val.addr)
                  IN  HeapDeepMergeFromSharing(h2, target, entries, i + 1)
             ELSE HeapDeepMergeFromSharing([h EXCEPT ![target] = SetProp(@, key, val)],
                                           target, entries, i + 1)

RECURSIVE HeapDeepMergeFrom(_, _, _, _)
\* The loop of deepMerge over the entries Object.entries(source) returned,
\* from the i-th on.
HeapDeepMergeFrom(h, target, entries, i) ==
    IF i > Len(entries) THEN h
    ELSE LET key == entries[i].key
             val == entries[i].val
         IN  IF val.kind = "object"
             THEN LET fresh == \/ ~HasKey(h[target], key)
                               \/ Get(h[target], key).kind # "object"
                      \* target[key] = {}
                      h1 == IF fresh
                            THEN Append([h EXCEPT ![target] =
                                            SetProp(@, key, HeapRef(Len(h) + 1))],
                                        EmptyObject)
                            ELSE h
                      \* deepMerge(target[key], value)
                      h2 == HeapDeepMerge(h1, Get(h1[target], key).addr, val.addr)
                  IN  HeapDeepMergeFrom(h2, target, entries, i + 1)
             ELSE HeapDeepMergeFrom([h EXCEPT ![target] = SetProp(@, key, val)],
                                    target, entries, i + 1)

\* deepMerge(target, source) on the objects at two addresses.
HeapDeepMerge(h, target, source) == HeapDeepMergeFrom(h, target, h[source].entries, 1)

(***************************************************************************)
(* processLocaleData (index.ts 63-79)                                      *)
(***************************************************************************)
\* ' '.repeat(n)
Spaces(n) == [i \in 1..n |-> " "]

RECURSIVE processLocaleData(_, _)

RECURSIVE ProcessFromUnclosed(_, _, _, _)
\* ProcessFrom where the line that closes a Branch is not pushed.
ProcessFromUnclosed(data, depth, i, lines) ==
    IF i > Len(data.entries) THEN lines
    ELSE LET key == data.entries[i].key
             val == data.entries[i].val
             indent == Spaces(2 * (depth + 3))
         IN  IF val.kind = "string"
             THEN ProcessFromUnclosed(data, depth, i + 1,
                      Append(lines, indent \o key \o <<":", " ">>
                                      \o generateFunctionSignature(val.str) \o <<";">>))
             ELSE ProcessFromUnclosed(data, depth, i + 1,
                      lines \o << indent \o key \o <<":", " ", "{">>,
                                  processLocaleData(val, depth + 1) >>)

RECURSIVE ProcessFromFlat(_, _, _, _)
\* ProcessFrom where the recursive call is given depth instead of depth + 1.
ProcessFromFlat(data, depth, i, lines) ==
    IF i > Len(data.entries) THEN lines
    ELSE LET key == data.entries[i].key
             val == data.entries[i].val
             indent == Spaces(2 * (depth + 3))
         IN  IF val.kind = "string"
             THEN ProcessFromFlat(data, depth, i + 1,
                      Append(lines, indent \o key \o <<":", " ">>
                                      \o generateFunctionSignature(val.str) \o <<";">>))
             ELSE ProcessFromFlat(data, depth, i + 1,
                      lines \o << indent \o key \o <<":", " ", "{">>,
                                  processLocaleData(val, depth),
                                  indent \o <<"}", ";">> >>)

RECURSIVE ProcessFrom(_, _, _, _)
\* The for loop of processLocaleData from the i-th entry on: lines as the
\* loop leaves it.
ProcessFrom(data, depth, i, lines) ==
    IF i > Len(data.entries) THEN lines
    ELSE LET key == data.entries[i].key
             val == data.entries[i].val
             indent == Spaces(2 * (depth + 3))
         IN  IF val.kind = "string"
             THEN ProcessFrom(data, depth, i + 1,
                      Append(lines, indent \o key \o <<":", " ">>
                                      \o generateFunctionSignature(val.str) \o <<";">>))
             ELSE ProcessFrom(data, depth, i + 1,
                      lines \o << indent \o key \o <<":", " ", "{">>,
                                  processLocaleData(val, depth + 1),
                                  indent \o <<"}", ";">> >>)

processLocaleData(data, depth) == join(ProcessFrom(data, depth, 1, <<>>), <<"\n">>)

(***************************************************************************)
(* extractParametersFromFunction (index.ts 190-201) and                    *)
(* extractPlainDataFromContentValue (index.ts 153-184)                     *)
(*                                                                         *)
(* A ContentValue is a string, a function (of which only length is read),  *)
(* an object of ContentValues, or a value of another type.                 *)
(***************************************************************************)
CvString(str) == [kind |-> "string", str |-> str, length |-> 0, entries |-> <<>>]

CvFunction(n) == [kind |-> "function", str |-> <<>>, length |-> n, entries |-> <<>>]

CvObject(entries) == [kind |-> "object", str |-> <<>>, length |-> 0, entries |-> entries]

CvOther == [kind |-> "other", str |-> <<>>, length |-> 0, entries |-> <<>>]

RECURSIVE DecimalString(_)
\* String(n) for an integer n >= 0
DecimalString(n) ==
    LET digit(d) == <<"0", "1", "2", "3", "4", "5", "6", "7", "8", "9">>[d + 1]
    IN  IF n < 10 THEN <<digit(n)>>
        ELSE DecimalString(n \div 10) \o <<digit(n % 10)>>

\* The placeholders numbered from 1.
extractParametersFromFunctionOneBased(func) ==
    LET paramCount == func.length
        params == [i \in 1..paramCount |-> <<"{">> \o DecimalString(i) \o <<"}">>]
    IN  IF paramCount = 0 THEN <<>> ELSE join(params, <<" ">>)

extractParametersFromFunction(func) ==
    LET paramCount == func.length
        params == [i \in 1..paramCount |-> <<"{">> \o DecimalString(i - 1) \o <<"}">>]
    IN  IF paramCount = 0 THEN <<>> ELSE join(params, <<" ">>)

\* The keys extractPlainDataFromContentValue skips.
FunctionProperties == {<<"l", "e", "n", "g", "t", "h">>, <<"n", "a", "m", "e">>,
                       <<"p", "r", "o", "t", "o", "t", "y", "p", "e">>}

RECURSIVE extractPlainDataFromContentValue(_)

RECURSIVE ExtractEntriesFrom(_, _, _)
\* The for loop over Object.entries(value) from the i-th entry on.
ExtractEntriesFrom(val, i, result) ==
    IF i > Len(val.entries) THEN result
    ELSE LET key == val.entries[i].key
         IN  IF key \in FunctionProperties
             THEN ExtractEntriesFrom(val, i + 1, result)
             ELSE ExtractEntriesFrom(val, i + 1,
                      SetProp(result, key,
                              extractPlainDataFromContentValue(val.entries[i].val)))

extractPlainDataFromContentValue(val) ==
    IF val.kind = "string" THEN Leaf(val.str)
    ELSE IF val.kind = "function" THEN Leaf(extractParametersFromFunction(val))
    ELSE IF val.kind = "object" THEN ExtractEntriesFrom(val, 1, EmptyObject)
    ELSE Leaf(<<>>)

(***************************************************************************)
(* extractPlainLocaleDataFromTessen (index.ts 114-147)                     *)
(*                                                                         *)
(* A Tessen is read through tessen.cache.locales only: a sequence of       *)
(* locales, each with its private contents (undefined, or a Collection of  *)
(* entries whose data is a PlainLocaleData or undefined) and its content   *)
(* (a sequence of ContentValues, one per language).                        *)
(***************************************************************************)
Undefined == [kind |-> "undefined", str |-> <<>>, entries |-> <<>>]

\* A Collection of the entries given, in iteration order.
Collection(entries) == [kind |-> "object", str |-> <<>>, entries |-> entries]

ContentEntry(data) == [data |-> data]

Locale(contents, content) == [contents |-> contents, content |-> content]

Tessen(locales) == [locales |-> locales]

\* The loop over rawContents left after its first entry.
MergeContentsFromFirstOnly(mergedData, rawContents, i) ==
    IF i > Len(rawContents.entries) \/ i > 1 THEN mergedData
    ELSE IF rawContents.entries[i].data # Undefined
         THEN deepMerge(mergedData, rawContents.entries[i].data)
         ELSE mergedData

RECURSIVE MergeContentsFrom(_, _, _)
\* for (const [contentId, contentEntry] of rawContents)
MergeContentsFrom(mergedData, rawContents, i) ==
    IF i > Len(rawContents.entries) THEN mergedData
    ELSE IF rawContents.entries[i].data # Undefined
         THEN MergeContentsFrom(deepMerge(mergedData, rawContents.entries[i].data),
                                rawContents, i + 1)
         ELSE MergeContentsFrom(mergedData, rawContents, i + 1)

\* for (const [language, contentValue] of locale.content) { ...; break; }
MergeFirstContent(mergedData, content) ==
    IF content = <<>> THEN mergedData
    ELSE LET plainData == extractPlainDataFromContentValue(content[1])
         IN  IF plainData.kind = "object" THEN deepMerge(mergedData, plainData)
             ELSE mergedData

RECURSIVE MergeLocalesFrom(_, _, _)
\* for (const [localeId, cacheData] of tessen.cache.locales)
MergeLocalesFrom(mergedData, locales, i) ==
    IF i > Len(locales) THEN mergedData
    ELSE LET locale == locales[i]
         IN  IF locale.contents # Undefined /\ locale.contents.kind = "object"
             THEN MergeLocalesFrom(MergeContentsFrom(mergedData, locale.contents, 1),
                                   locales, i + 1)
             ELSE MergeLocalesFrom(MergeFirstContent(mergedData, locale.content),
                                   locales, i + 1)

extractPlainLocaleDataFromTessen(tessen) == MergeLocalesFrom(EmptyObject, tessen.locales, 1)

(***************************************************************************)
(* generateTessenDeclaration (index.ts 206-221) and                        *)
(* generateLocalizationTypes (index.ts 226-236)                            *)
(***************************************************************************)
\* clientIndex is <<>> for undefined and <<i>> for the number i.
ClientSuffix(clientIndex) ==
    IF clientIndex # <<>>
    THEN <<" ", "/", "/", " ", "C", "l", "i", "e", "n", "t", " ">>
             \o DecimalString(clientIndex[1] + 1)
    ELSE <<>>

DeclareGlobal == <<"d", "e", "c", "l", "a", "r", "e", " ", "g", "l", "o", "b", "a", "l", " ", "{">>

NamespaceLine == <<" ", " ", "n", "a", "m", "e", "s", "p", "a", "c", "e", " ",
                   "T", "e", "s", "s", "e", "n", " ", "{">>

InterfaceLine == <<" ", " ", " ", " ", "i", "n", "t", "e", "r", "f", "a", "c", "e", " ",
                   "L", "o", "c", "a", "l", "i", "z", "a", "t", "i", "o", "n", " ", "{">>

\* The text of the template literal after ${interfaceContent}.
DeclarationTail ==
    <<"\n", " ", " ", " ", " ", "}",
      "\n", " ", " ", "}",
      "\n", "}",
      "\n", " ", " ", " ", " ",
      "\n", "e", "x", "p", "o", "r", "t", " ", "{", " ", "}", ";">>

generateTessenDeclaration(tessen, clientIndex) ==
    LET localeData == extractPlainLocaleDataFromTessen(tessen)
        interfaceContent == processLocaleData(localeData, 0)
        clientSuffix == ClientSuffix(clientIndex)
    IN  DeclareGlobal \o clientSuffix \o <<"\n">>
            \o NamespaceLine \o <<"\n">>
            \o InterfaceLine \o <<"\n">>
            \o interfaceContent
            \o DeclarationTail

\* config.tessens.length > 1 ? i : undefined
ClientIndexAlways(length, i) == <<i>>

ClientIndexOf(length, i) == IF length > 1 THEN <<i>> ELSE <<>>

\* The array of an earlier call carried over into the next one.
DeclarationsKept(earlier) == earlier

\* const declarations: string[] = []; a new array on every call, whatever the
\* array of an earlier call holds.
DeclarationsAtEntry(earlier) == <<>>

\* The loop body read as it would be with one mergedData shared by the Sources:
\* the block of config.tessens[i] rendered from every locale met so far.
DeclarationAtShared(tessenList, i) ==
    generateTessenDeclaration(
        Tessen(Concat([k \in 1..(i + 1) |-> tessenList[k].locales])),
        ClientIndexOf(Len(tessenList), i))

\* const tessen = config.tessens[i];
\* const declaration = generateTessenDeclaration(tessen, length > 1 ? i : undefined);
DeclarationAt(tessenList, i) ==
    generateTessenDeclaration(tessenList[i + 1], ClientIndexOf(Len(tessenList), i))

RECURSIVE GenerateFrom(_, _, _)
\* for (let i = 0; i < config.tessens.length; i++) declarations.push(declaration);
GenerateFrom(tessenList, i, declared) ==
    IF i >= Len(tessenList) THEN declared
    ELSE GenerateFrom(tessenList, i + 1, Append(declared, DeclarationAt(tessenList, i)))

\* generateLocalizationTypes(config) as one synchronous call.
generateLocalizationTypes(tessenList) ==
    join(GenerateFrom(tessenList, 0, DeclarationsAtEntry(<<>>)), <<"\n", "\n">>)

(***************************************************************************)
(* cli.ts: loadTessenInstances (37-132), performTypeGeneration (193-225),  *)
(* generateTypes (147-191), clearModuleCache (14-35)                       *)
(*                                                                         *)
(* An instance found by findTessenInstances is an object whose constructor *)
(* is named Tessen or that has cache.locales: hasLocales tells whether     *)
(* tessen.cache.locales can be iterated (it throws a TypeError if not).    *)
(***************************************************************************)
Instance(hasLocales, tessen) == [hasLocales |-> hasLocales, tessen |-> tessen]

\* What `await import(...)` and the search of the exports end with.
ImportError == [kind |-> "importError", instances |-> <<>>]

NoInstances == [kind |-> "noInstances", instances |-> <<>>]

Loaded(instances) == [kind |-> "ok", instances |-> instances]

\* const absolutePath = resolve(importPath)
AbsolutePath == "tessenImport"

\* clearModuleCache read without its moduleCache.clear().
clearModuleCacheKept(cache) == cache

\* clearModuleCache(): the deletions from require.cache are best effort (their
\* errors are ignored); moduleCache.clear() empties the Set.
clearModuleCache(cache) == {}

\* The handler read without its clearTimeout.
ClearTimeoutNone(pending, handle) == pending

\* if (regenerateTimeout) clearTimeout(regenerateTimeout);
\* clearing a timer that has fired or been cleared changes nothing.
ClearTimeout(pending, handle) == IF handle # 0 THEN pending \ {handle} ELSE pending

(***************************************************************************)
(* The templates the parser is run on                                      *)
(***************************************************************************)
\* Every string over Alphabet of at most MaxLen characters ...
MaxLen == 5

Alphabet == {"{", "}", ":", "0", "1", "a"}

RECURSIVE StringsUpTo(_)
StringsUpTo(n) ==
    IF n = 0 THEN {<<>>}
    ELSE LET shorter == StringsUpTo(n - 1)
         IN  shorter \cup {Append(s, c) : s \in shorter, c \in Alphabet}

\* ... and every concatenation of at most MaxParts of these pieces: well-formed
\* placeholders, malformed brace text and plain text.
MaxParts == 3

Parts == {
    <<"{", "0", "}">>, <<"{", "1", "}">>, <<"{", "0", "0", "}">>,
    <<"{", "0", ":", "a", "}">>, <<"{", "1", ":", "a", "}">>,
    <<"{", "0", ":", "b", "}">>,
    <<"{", "0">>, <<"{", "0", ":", "a">>,
    <<"{", "}">>, <<"{", "a", "}">>, <<"{", "0", ":", "}">>,
    <<"a">>, <<" ">> }

RECURSIVE PartsUpTo(_)
PartsUpTo(n) ==
    IF n = 0 THEN {<<>>}
    ELSE LET shorter == PartsUpTo(n - 1)
         IN  shorter \cup {s \o p : s \in shorter, p \in Parts}

Templates == StringsUpTo(MaxLen) \cup PartsUpTo(MaxParts)

(***************************************************************************)
(* The parser run on one template                                          *)
(***************************************************************************)
\* No merge is under way.
IdleMerge ==
    /\ localeDataArray = <<>>
    /\ merged = EmptyObject
    /\ before = EmptyObject
    /\ mergeIdx = 0
    /\ firstSeen = <<>>
    /\ body = <<>>
    /\ mergePc = "idle"

\* No generation is under way.
IdleGen ==
    /\ tessens = <<>>
    /\ declarations = <<>>
    /\ genIdx = 0
    /\ output = <<>>
    /\ genPc = "idle"
    /\ run = "first"
    /\ firstOutput = <<>>

\* The command line program is not running.
IdleCli ==
    /\ watchOpt = FALSE
    /\ proc = "idle"
    /\ started = 0
    /\ inFlight = {}
    /\ file = <<>>
    /\ writes = <<>>
    /\ reported = {}
    /\ watcherOn = FALSE
    /\ regenerateTimeout = 0
    /\ pendingTimers = {}
    /\ events = 0
    /\ bursts = 0
    /\ moduleCache = {}

\* No tree has been allocated.
IdleHeap ==
    /\ heap = <<>>
    /\ inputRoots = <<>>
    /\ inputTrees = <<>>
    /\ accRoot = 0
    /\ heapIdx = 0
    /\ heapPc = "idle"

\* No fallback extraction is under way.
IdleNorm ==
    /\ contentValue = CvOther
    /\ extractedData = EmptyObject
    /\ fallbackBody = <<>>
    /\ normPc = "idle"

InitParse ==
    /\ value \in Templates
    /\ parameters = <<>>
    /\ signature = <<>>
    /\ parsePc = "start"
    /\ IdleMerge
    /\ IdleGen
    /\ IdleNorm
    /\ IdleHeap
    /\ IdleCli

\* parameters = extractParameters(value)
CallExtractParameters ==
    /\ parsePc = "start"
    /\ parameters' = extractParameters(value)
    /\ parsePc' = "extracted"
    /\ UNCHANGED <<value, signature, mergeVars, genVars, normVars, heapVars, cliVars>>

\* signature = generateFunctionSignature(value)
CallGenerateFunctionSignature ==
    /\ parsePc = "extracted"
    /\ signature' = generateFunctionSignature(value)
    /\ parsePc' = "signed"
    /\ UNCHANGED <<value, parameters, mergeVars, genVars, normVars, heapVars, cliVars>>

NextParse == CallExtractParameters \/ CallGenerateFunctionSignature

SpecParse == InitParse /\ [][NextParse]_vars

(***************************************************************************)
(* The trees the merger is run on                                          *)
(***************************************************************************)
LocaleKeys == {<<"a">>, <<"b">>, <<"c">>, <<"2">>, <<"1", "0">>}

LeafStrings == {<<"x">>, <<"{", "0", "}">>}

\* The Branches found below the root.
InnerObjects == {
    EmptyObject,
    SetProp(EmptyObject, <<"b">>, Leaf(<<"x">>)),
    SetProp(EmptyObject, <<"c">>, Leaf(<<"{", "0", "}">>)),
    SetProp(EmptyObject, <<"b">>, SetProp(EmptyObject, <<"c">>, Leaf(<<"x">>))) }

\* The keys that hold a Branch at the root, and the keys of the two-key trees.
BranchKeys == {<<"a">>, <<"2">>}

PairKeys == {<<"a">>, <<"b">>, <<"c">>}

\* The empty tree, the trees of one root key, and the trees of two root keys
\* that hold the same Leaf (each built by assignment, so in the order
\* Object.entries yields).
LocaleTrees ==
    {EmptyObject}
    \cup {SetProp(EmptyObject, k, Leaf(l)) : k \in LocaleKeys, l \in LeafStrings}
    \cup {SetProp(EmptyObject, k, v) : k \in BranchKeys, v \in InnerObjects}
    \cup {SetProp(SetProp(EmptyObject, k1, Leaf(l)), k2, Leaf(l)) :
            k1 \in PairKeys, k2 \in PairKeys, l \in LeafStrings}

\* mergeLocaleData is called with at most MaxTrees trees.
MaxTrees == 2

RECURSIVE ListsUpTo(_, _)
ListsUpTo(S, n) ==
    IF n = 0 THEN {<<>>}
    ELSE LET shorter == ListsUpTo(S, n - 1)
         IN  shorter \cup {Append(l, x) : l \in shorter, x \in S}

(***************************************************************************)
(* mergeLocaleData run on a list of trees, and the result rendered         *)
(***************************************************************************)
\* No parse is under way.
IdleParse ==
    /\ value = <<>>
    /\ parameters = <<>>
    /\ signature = <<>>
    /\ parsePc = "idle"

InitMerge ==
    /\ localeDataArray \in ListsUpTo(LocaleTrees, MaxTrees)
    /\ merged = EmptyObject
    /\ before = EmptyObject
    /\ mergeIdx = 0
    /\ firstSeen = <<>>
    /\ body = <<>>
    /\ mergePc = "merging"
    /\ IdleParse
    /\ IdleGen
    /\ IdleNorm
    /\ IdleHeap
    /\ IdleCli

\* One iteration of the loop of mergeLocaleData: deepMerge(merged, localeData).
MergeNextTree ==
    /\ mergePc = "merging"
    /\ mergeIdx < Len(localeDataArray)
    /\ LET localeData == localeDataArray[mergeIdx + 1]
       IN  /\ merged' = deepMerge(merged, localeData)
           /\ firstSeen' = firstSeen \o SelectSeq(KeysOf(localeData),
                                          LAMBDA k : k \notin Range(firstSeen))
    /\ before' = merged
    /\ mergeIdx' = mergeIdx + 1
    /\ UNCHANGED <<localeDataArray, body, mergePc, parseVars, genVars, normVars, heapVars, cliVars>>

\* The loop is over: merged is returned and rendered by processLocaleData.
RenderMerged ==
    /\ mergePc = "merging"
    /\ mergeIdx = Len(localeDataArray)
    /\ body' = processLocaleData(merged, 0)
    /\ mergePc' = "rendered"
    /\ UNCHANGED <<localeDataArray, merged, before, mergeIdx, firstSeen, parseVars, genVars, normVars, heapVars, cliVars>>

NextMerge == MergeNextTree \/ RenderMerged

SpecMerge == InitMerge /\ [][NextMerge]_vars

(***************************************************************************)
(* mergeLocaleData run on trees held as objects                            *)
(***************************************************************************)
\* Trees with and without Branches, two of them with a Branch next to a Leaf.
HeapTrees ==
    {EmptyObject, SetProp(EmptyObject, <<"b">>, Leaf(<<"x">>))}
    \cup {SetProp(EmptyObject, k, v) : k \in BranchKeys, v \in InnerObjects}
    \cup {SetProp(SetProp(EmptyObject, <<"a">>, v), <<"b">>, Leaf(<<"x">>)) :
             v \in {EmptyObject, SetProp(EmptyObject, <<"b">>, Leaf(<<"x">>))}}

InitHeap ==
    /\ inputTrees \in ListsUpTo(HeapTrees, MaxTrees)
    /\ LET allocated == AllocateAll([heap |-> <<>>, roots |-> <<>>], inputTrees, 1)
       IN  /\ heap = allocated.heap
           /\ inputRoots = allocated.roots
    /\ accRoot = 0
    /\ heapIdx = 0
    /\ heapPc = "start"
    /\ IdleParse
    /\ IdleMerge
    /\ IdleGen
    /\ IdleNorm
    /\ IdleCli

\* const merged: PlainLocaleData = {};
CreateAccumulator ==
    /\ heapPc = "start"
    /\ heap' = Append(heap, EmptyObject)
    /\ accRoot' = Len(heap) + 1
    /\ heapPc' = "merging"
    /\ UNCHANGED <<inputRoots, inputTrees, heapIdx, parseVars, mergeVars, genVars, normVars, cliVars>>

\* deepMerge(merged, localeData) for the next tree of the list.
HeapMergeNextTree ==
    /\ heapPc = "merging"
    /\ heapIdx < Len(inputRoots)
    /\ heap' = HeapDeepMerge(heap, accRoot, inputRoots[heapIdx + 1])
    /\ heapIdx' = heapIdx + 1
    /\ UNCHANGED <<inputRoots, inputTrees, accRoot, heapPc,
                   parseVars, mergeVars, genVars, normVars, cliVars>>

NextHeap == CreateAccumulator \/ HeapMergeNextTree

SpecHeap == InitHeap /\ [][NextHeap]_vars

(***************************************************************************)
(* The Tessen instances the generator is run on                            *)
(***************************************************************************)
HelloTree == SetProp(EmptyObject, <<"a">>, Leaf(<<"x">>))

NestedTree ==
    SetProp(SetProp(EmptyObject, <<"a">>, SetProp(EmptyObject, <<"b">>, Leaf(<<"{", "0", "}">>))),
            <<"c">>, Leaf(<<"{", "0", ":", "a", "}">>))

OtherTree == SetProp(EmptyObject, <<"b">>, Leaf(<<"{", "1", "}", "{", "0", "}">>))

\* NestedTree with OtherTree merged into it.
NestedTreeMerged == SetProp(NestedTree, <<"b">>, Leaf(<<"{", "1", "}", "{", "0", "}">>))

\* A locale's resolved content: callables of 2 and 0 parameters, a string, a
\* function property to skip and a value of another type.
ResolvedContent ==
    CvObject(<< [key |-> <<"a">>, val |-> CvFunction(2)],
                [key |-> <<"n", "a", "m", "e">>, val |-> CvString(<<"x">>)],
                [key |-> <<"c">>, val |-> CvObject(<< [key |-> <<"2">>, val |-> CvString(<<"x">>)],
                                                     [key |-> <<"b">>, val |-> CvFunction(0)],
                                                     [key |-> <<"a">>, val |-> CvOther] >>)] >>)

\* Locales whose private contents hold the raw templates ...
RawLocales == {
    Locale(Collection(<<>>), <<>>),
    Locale(Collection(<<ContentEntry(HelloTree)>>), <<>>),
    Locale(Collection(<<ContentEntry(NestedTree), ContentEntry(OtherTree)>>), <<>>),
    Locale(Collection(<<ContentEntry(Undefined), ContentEntry(OtherTree)>>), <<>>) }

\* ... and locales without them, read through their resolved content.
ResolvedLocales == {
    Locale(Undefined, <<ResolvedContent, CvObject(<< [key |-> <<"b">>, val |-> CvFunction(1)] >>)>>),
    Locale(Undefined, <<CvFunction(1)>>) }

Locales == RawLocales \cup ResolvedLocales

\* tessen.cache.locales holds no locale, one locale, or two.
Tessens ==
    {Tessen(<<>>)}
    \cup {Tessen(<<l>>) : l \in Locales}
    \cup {Tessen(<<Locale(Collection(<<ContentEntry(HelloTree)>>), <<>>), l>>) : l \in Locales}

\* generateLocalizationTypes is called with at most MaxSources Tessen instances.
MaxSources == 2

(***************************************************************************)
(* generateLocalizationTypes run on a list of Tessen instances             *)
(***************************************************************************)
Init ==
    /\ tessens \in ListsUpTo(Tessens, MaxSources)
    /\ declarations = DeclarationsAtEntry(<<>>)
    /\ genIdx = 0
    /\ output = <<>>
    /\ genPc = "looping"
    /\ run = "first"
    /\ firstOutput = <<>>
    /\ IdleParse
    /\ IdleMerge
    /\ IdleNorm
    /\ IdleHeap
    /\ IdleCli

\* One iteration of the loop: the declaration of config.tessens[i] is pushed.
GenerateDeclaration ==
    /\ genPc = "looping"
    /\ genIdx < Len(tessens)
    /\ LET declaration == DeclarationAt(tessens, genIdx)
       IN  declarations' = Append(declarations, declaration)
    /\ genIdx' = genIdx + 1
    /\ UNCHANGED <<tessens, output, genPc, run, firstOutput, parseVars, mergeVars, normVars, heapVars, cliVars>>

\* return declarations.join('\n\n');
ReturnDeclarations ==
    /\ genPc = "looping"
    /\ genIdx = Len(tessens)
    /\ output' = join(declarations, <<"\n", "\n">>)
    /\ genPc' = "returned"
    /\ UNCHANGED <<tessens, declarations, genIdx, run, firstOutput, parseVars, mergeVars, normVars, heapVars, cliVars>>

\* generateLocalizationTypes is called a second time with the same config: the
\* caller keeps what the first call returned.
CallAgain ==
    /\ genPc = "returned"
    /\ run = "first"
    /\ firstOutput' = output
    /\ declarations' = DeclarationsAtEntry(declarations)
    /\ genIdx' = 0
    /\ output' = <<>>
    /\ genPc' = "looping"
    /\ run' = "second"
    /\ UNCHANGED <<tessens, parseVars, mergeVars, normVars, heapVars, cliVars>>

Next == GenerateDeclaration \/ ReturnDeclarations \/ CallAgain

Spec == Init /\ [][Next]_vars

(***************************************************************************)
(* The fallback run on the resolved content of one locale                  *)
(***************************************************************************)
\* The callables of the inputs declare at most MaxArity parameters.
MaxArity == 3

\* The values a key of a resolved content holds: callables, a string, a value
\* of another type.
ContentLeaves == {CvFunction(n) : n \in 0..MaxArity} \cup {CvString(<<"x">>), CvOther}

\* locale.content values: a bare value, an object of one key (one of them a
\* function property), an object of two callables, a nested object.
ContentValues ==
    ContentLeaves
    \cup {CvObject(<< [key |-> k, val |-> v] >>) :
             k \in {<<"a">>, <<"n", "a", "m", "e">>}, v \in ContentLeaves}
    \cup {CvObject(<< [key |-> <<"a">>, val |-> CvFunction(n)],
                      [key |-> <<"b">>, val |-> CvFunction(m)] >>) : n, m \in 0..MaxArity}
    \cup {CvObject(<< [key |-> <<"c">>,
                       val |-> CvObject(<< [key |-> <<"b">>, val |-> CvFunction(n)] >>)] >>) :
             n \in 0..MaxArity}

InitNorm ==
    /\ contentValue \in ContentValues
    /\ extractedData = EmptyObject
    /\ fallbackBody = <<>>
    /\ normPc = "start"
    /\ IdleParse
    /\ IdleMerge
    /\ IdleGen
    /\ IdleHeap
    /\ IdleCli

\* const plainData = extractPlainDataFromContentValue(contentValue);
ExtractPlainData ==
    /\ normPc = "start"
    /\ extractedData' = extractPlainDataFromContentValue(contentValue)
    /\ normPc' = "extracted"
    /\ UNCHANGED <<contentValue, fallbackBody, parseVars, mergeVars, genVars, heapVars, cliVars>>

\* if (typeof plainData === 'object') deepMerge(mergedData, plainData); the
\* tree is then rendered by processLocaleData.
RenderPlainData ==
    /\ normPc = "extracted"
    /\ fallbackBody' = processLocaleData(
                           IF extractedData.kind = "object"
                           THEN deepMerge(EmptyObject, extractedData) ELSE EmptyObject, 0)
    /\ normPc' = "rendered"
    /\ UNCHANGED <<contentValue, extractedData, parseVars, mergeVars, genVars, heapVars, cliVars>>

NextNorm == ExtractPlainData \/ RenderPlainData

SpecNorm == InitNorm /\ [][NextNorm]_vars

(***************************************************************************)
(* The command line program, with and without --watch                      *)
(***************************************************************************)
\* The watcher delivers at most MaxEvents file events.
MaxEvents == 3

\* The instances a module exports: one or two good ones, a good one followed
\* by one without cache.locales, and that one alone.
InstanceLists ==
    LET hello == Instance(TRUE, Tessen(<<Locale(Collection(<<ContentEntry(HelloTree)>>), <<>>)>>))
        other == Instance(TRUE, Tessen(<<Locale(Collection(<<ContentEntry(OtherTree)>>), <<>>)>>))
        bad == Instance(FALSE, Tessen(<<>>))
    IN  {<<hello>>, <<hello, other>>, <<hello, bad>>, <<bad>>}

LoadOutcomes == {ImportError, NoInstances} \cup {Loaded(l) : l \in InstanceLists}

\* config.tessens of createTypeGenerationConfig(tessens, outputPath)
TessensOf(instances) == [i \in 1..Len(instances) |-> instances[i].tessen]

\* The declarations pushed before generateLocalizationTypes throws.
DeclarationsBeforeThrow(instances) ==
    LET bad == Min({i \in 1..Len(instances) : ~instances[i].hasLocales})
        tessenList == TessensOf(instances)
    IN  [i \in 1..(bad - 1) |-> DeclarationAt(tessenList, i - 1)]

\* performTypeGeneration read as writing whatever text exists when the
\* generation throws.
PerformAfterLoadPartial(instances, watching, dirOk) ==
    IF \E i \in 1..Len(instances) : ~instances[i].hasLocales
    THEN [wrote |-> TRUE,
          text |-> join(DeclarationsBeforeThrow(instances), <<"\n", "\n">>),
          error |-> TRUE, exit |-> ~watching]
    ELSE IF ~dirOk
    THEN [wrote |-> FALSE, text |-> <<>>, error |-> TRUE, exit |-> TRUE]
    ELSE [wrote |-> TRUE,
          text |-> generateLocalizationTypes(TessensOf(instances)),
          error |-> FALSE, exit |-> FALSE]

\* performTypeGeneration from the return of loadTessenInstances on (lines
\* 206-224): generateLocalizationTypes throws on an instance without
\* cache.locales, and the catch reports it and exits unless options.watch;
\* ensureDirectoryExists reports and exits when it fails; writeFileSync then
\* writes the text generated.
PerformAfterLoad(instances, watching, dirOk) ==
    IF \E i \in 1..Len(instances) : ~instances[i].hasLocales
    THEN [wrote |-> FALSE, text |-> <<>>, error |-> TRUE, exit |-> ~watching]
    ELSE IF ~dirOk
    THEN [wrote |-> FALSE, text |-> <<>>, error |-> TRUE, exit |-> TRUE]
    ELSE [wrote |-> TRUE,
          text |-> generateLocalizationTypes(TessensOf(instances)),
          error |-> FALSE, exit |-> FALSE]

InitCli ==
    /\ watchOpt \in BOOLEAN
    /\ proc = "running"
    /\ started = 0
    /\ inFlight = {}
    /\ file = <<>>
    /\ writes = <<>>
    /\ reported = {}
    /\ watcherOn = FALSE
    /\ regenerateTimeout = 0
    /\ pendingTimers = {}
    /\ events = 0
    /\ bursts = 0
    /\ moduleCache = {}
    /\ IdleParse
    /\ IdleMerge
    /\ IdleGen
    /\ IdleNorm
    /\ IdleHeap

\* performTypeGeneration up to its first await, with moduleCache as cache:
\* loadTessenInstances reports and exits when the import file does not exist,
\* and otherwise tracks the path and suspends at `await import(...)`.
BeginGeneration(cache, exists) ==
    /\ started' = started + 1
    /\ IF exists
       THEN /\ moduleCache' = cache \cup {AbsolutePath}
            /\ inFlight' = inFlight \cup {[id |-> started + 1, cacheBefore |-> cache]}
            /\ UNCHANGED <<proc, reported>>
       ELSE /\ moduleCache' = cache
            /\ reported' = reported \cup {started + 1}
            /\ proc' = "exited1"
            /\ UNCHANGED inFlight

\* generateTypes: await performTypeGeneration(options), the initial generation.
StartInitial ==
    /\ proc = "running"
    /\ started = 0
    /\ \E exists \in BOOLEAN : BeginGeneration(moduleCache, exists)
    /\ UNCHANGED <<watchOpt, file, writes, watcherOn, regenerateTimeout, pendingTimers,
                   events, bursts, parseVars, mergeVars, genVars, normVars, heapVars>>

\* The import of a suspended call settles and the call runs to its end: a
\* failed import or a module without instances is reported and exits; else the
\* types are generated and written. The initial call then returns to
\* generateTypes, which sets the watcher up if options.watch.
FinishLoad(g, outcome, dirOk) ==
    /\ proc = "running"
    /\ g \in inFlight
    /\ inFlight' = inFlight \ {g}
    /\ IF outcome.kind # "ok"
       THEN /\ reported' = reported \cup {g.id}
            /\ proc' = "exited1"
            /\ UNCHANGED <<file, writes, watcherOn>>
       ELSE LET res == PerformAfterLoad(outcome.instances, watchOpt, dirOk)
            IN  /\ reported' = IF res.error THEN reported \cup {g.id} ELSE reported
                /\ file' = IF res.wrote THEN res.text ELSE file
                /\ writes' = IF res.wrote
                             THEN Append(writes, [by |-> g.id, latest |-> started,
                                                  text |-> res.text,
                                                  instances |-> outcome.instances])
                             ELSE writes
                /\ proc' = IF res.exit THEN "exited1"
                           ELSE IF g.id = 1 /\ ~watchOpt THEN "done"
                           ELSE "running"
                /\ watcherOn' = (watcherOn \/ (g.id = 1 /\ watchOpt /\ ~res.exit))
    /\ UNCHANGED <<watchOpt, started, regenerateTimeout, pendingTimers, events, bursts,
                   moduleCache, parseVars, mergeVars, genVars, normVars, heapVars>>

\* watcher.on('all', ...): the pending timer is cleared and a new one is set.
FileEvent ==
    /\ proc = "running"
    /\ watcherOn
    /\ events < MaxEvents
    /\ events' = events + 1
    /\ bursts' = IF pendingTimers = {} THEN bursts + 1 ELSE bursts
    /\ pendingTimers' = ClearTimeout(pendingTimers, regenerateTimeout) \cup {events + 1}
    /\ regenerateTimeout' = events + 1
    /\ UNCHANGED <<watchOpt, proc, started, inFlight, file, writes, reported, watcherOn,
                   moduleCache, parseVars, mergeVars, genVars, normVars, heapVars>>

\* The callback of setTimeout, 300 ms after the timer was set: the module
\* cache is cleared and performTypeGeneration is called.
TimerFires(t) ==
    /\ proc = "running"
    /\ t \in pendingTimers
    /\ pendingTimers' = pendingTimers \ {t}
    /\ \E exists \in BOOLEAN : BeginGeneration(clearModuleCache(moduleCache), exists)
    /\ UNCHANGED <<watchOpt, file, writes, watcherOn, regenerateTimeout, events, bursts,
                   parseVars, mergeVars, genVars, normVars, heapVars>>

\* process.on('SIGINT', ...): the watcher is closed and the process exits.
Interrupt ==
    /\ proc = "running"
    /\ watcherOn
    /\ proc' = "exited0"
    /\ UNCHANGED <<watchOpt, started, inFlight, file, writes, reported, watcherOn,
                   regenerateTimeout, pendingTimers, events, bursts, moduleCache,
                   parseVars, mergeVars, genVars, normVars, heapVars>>

SomeLoadFinishes ==
    \E g \in inFlight : \E outcome \in LoadOutcomes : \E dirOk \in BOOLEAN :
        FinishLoad(g, outcome, dirOk)

SomeTimerFires == \E t \in pendingTimers : TimerFires(t)

NextCli == StartInitial \/ SomeLoadFinishes \/ FileEvent \/ SomeTimerFires \/ Interrupt

SpecCli == InitCli /\ [][NextCli]_vars

\* The event loop runs a timer that is due and resumes a call whose import
\* has settled.
SpecCliFair ==
    /\ InitCli
    /\ [][NextCli]_vars
    /\ WF_vars(StartInitial)
    /\ WF_vars(SomeTimerFires)
    /\ WF_vars(SomeLoadFinishes)

(***************************************************************************)
(* What a template contains, stated on the text alone                      *)
(***************************************************************************)
\* Every piece of v of the form {digits} or {digits:label}, label a non-empty
\* run without "}", with the name the placeholder stands for.
Placeholders(v) ==
    LET opens == {s \in 1..Len(v) : v[s] = "{"}
        digits(s, c) == c >= s + 2 /\ \A k \in (s + 1)..(c - 1) : v[k] \in Digit
        plain(s) == {e \in (s + 2)..Len(v) : v[e] = "}" /\ digits(s, e)}
        colons(s) == {c \in (s + 2)..Len(v) : v[c] = ":" /\ digits(s, c)}
        closes(c) == {e \in (c + 2)..Len(v) :
                         v[e] = "}" /\ \A k \in (c + 1)..(e - 1) : v[k] # "}"}
    IN  UNION {
          {[start |-> s, end |-> e, name |-> <<"_">> \o SubSeq(v, s + 1, e - 1)] :
              e \in plain(s)}
          \cup UNION {
              {[start |-> s, end |-> e, name |-> SubSeq(v, c + 1, e - 1)] :
                  e \in closes(c)} : c \in colons(s)}
          : s \in opens}

\* The placeholders a left-to-right scan meets: those that do not start inside
\* a placeholder that starts earlier.
Scanned(v) ==
    LET all == Placeholders(v)
    IN  {o \in all : ~ \E o2 \in all : o2.start < o.start /\ o.start <= o2.end}

\* Where the scan, having met the placeholders scanned, first meets one named n.
FirstAppearance(scanned, n) == Min({o.start : o \in {x \in scanned : x.name = n}})

\* Position s lies in the label of a placeholder opened earlier as {digits:
\* and not yet closed by "}".
InsideOpenLabel(v, s) ==
    \E s2 \in 1..(s - 1), c \in 1..(s - 1) :
        /\ c >= s2 + 2
        /\ v[s2] = "{" /\ v[c] = ":"
        /\ \A k \in (s2 + 1)..(c - 1) : v[k] \in Digit
        /\ \A k \in (c + 1)..s : v[k] # "}"

Names(params) == [i \in 1..Len(params) |-> params[i].name]

(***************************************************************************)
(* Claims about the parser and the signature renderer                      *)
(***************************************************************************)
\* C1: extractParameters returns the parameters in the order in which their
\* placeholders first appear in a left-to-right scan, and every name is the
\* label of a scanned placeholder, or "_" followed by its digit run as written.
C1_FirstSeenOrder ==
    parsePc # "start" =>
        LET names == Names(parameters)
            scanned == Scanned(value)
        IN  /\ \A i \in 1..Len(names) :
                  \E o \in scanned : names[i] = o.name
            /\ \A i, j \in 1..Len(names) :
                  i < j => FirstAppearance(scanned, names[i])
                             < FirstAppearance(scanned, names[j])

\* "{1}{0}" has been parsed to [_1, _0].
C1_Witness ==
    /\ parsePc = "extracted"
    /\ value = <<"{", "1", "}", "{", "0", "}">>
    /\ Names(parameters) = << <<"_", "1">>, <<"_", "0">> >>

\* C2: the names returned by extractParameters are pairwise distinct, and there
\* are as many parameters as distinct names among the scanned placeholders.
C2_UniqueByName ==
    parsePc # "start" =>
        LET names == Names(parameters)
        IN  /\ \A i, j \in 1..Len(names) : i # j => names[i] # names[j]
            /\ Len(names) = Cardinality({o.name : o \in Scanned(value)})

\* "{0:a}{1:a}" has been parsed to the single parameter a.
C2_Witness ==
    /\ parsePc = "extracted"
    /\ value = <<"{", "0", ":", "a", "}", "{", "1", ":", "a", "}">>
    /\ Names(parameters) = << <<"a">> >>

\* C3: the signature is "(" n1 ": string" ", " n2 ": string" ... ") => string"
\* over the parameters of extractParameters in their order, and it is the
\* zero-argument form exactly when the template holds no placeholder.
C3_Signature ==
    parsePc = "signed" =>
        LET entry(i) == (IF i > 1 THEN <<",", " ">> ELSE <<>>)
                          \o parameters[i].name
                          \o <<":", " ", "s", "t", "r", "i", "n", "g">>
        IN  /\ signature = <<"(">>
                  \o Concat([i \in 1..Len(parameters) |-> entry(i)])
                  \o <<")", " ", "=", ">", " ", "s", "t", "r", "i", "n", "g">>
            /\ (signature = <<"(", ")", " ", "=", ">", " ", "s", "t", "r", "i", "n", "g">>)
                  <=> (Placeholders(value) = {})

\* "{0:a}{1}" has been rendered as "(a: string, _1: string) => string".
C3_Witness ==
    /\ parsePc = "signed"
    /\ value = <<"{", "0", ":", "a", "}", "{", "1", "}">>
    /\ signature = <<"(", "a", ":", " ", "s", "t", "r", "i", "n", "g", ",", " ",
                     "_", "1", ":", " ", "s", "t", "r", "i", "n", "g",
                     ")", " ", "=", ">", " ", "s", "t", "r", "i", "n", "g">>

\* C4 as stated: every well-formed placeholder of the template is recognised
\* as its own parameter, whatever malformed brace text precedes it.
C4_EveryPlaceholderRecognised ==
    parsePc # "start" =>
        \A o \in Placeholders(value) : o.name \in Range(Names(parameters))

\* C4 as amended: text outside the grammar gives no parameter (every parameter
\* is the name of a placeholder of the text), and a well-formed placeholder is
\* recognised unless it starts inside the label of an earlier "{digits:" that
\* no "}" has closed yet.
C4_MalformedIsPlainText ==
    parsePc # "start" =>
        /\ \A i \in 1..Len(parameters) :
              parameters[i].name \in {o.name : o \in Placeholders(value)}
        /\ \A o \in Placeholders(value) :
              \/ o.name \in Range(Names(parameters))
              \/ InsideOpenLabel(value, o.start)

\* "{0{1}": the unterminated "{0" gave nothing and "{1}" was recognised.
C4_Witness ==
    /\ parsePc = "extracted"
    /\ value = <<"{", "0", "{", "1", "}">>
    /\ Names(parameters) = << <<"_", "1">> >>

(***************************************************************************)
(* What a merge and a rendering are, stated on the trees and the text      *)
(***************************************************************************)
KeySet(obj) == Range(KeysOf(obj))

RECURSIVE LeafWins(_, _)
\* Every Leaf of inc is in acc at the same path, under Branches of acc.
LeafWins(acc, inc) ==
    \A i \in 1..Len(inc.entries) :
        LET k == inc.entries[i].key
            v == inc.entries[i].val
        IN  /\ HasKey(acc, k)
            /\ IF v.kind = "string" THEN Get(acc, k) = v
               ELSE Get(acc, k).kind = "object" /\ LeafWins(Get(acc, k), v)

RECURSIVE IsMergeOf(_, _, _)
\* res is old with inc merged into it: the keys of both; at a key of inc, inc's
\* Leaf, or the merge of inc's Branch into old's Branch (into an empty Branch
\* when old has none there); at any other key, old's value.
IsMergeOf(res, old, inc) ==
    /\ res.kind = "object"
    /\ KeySet(res) = KeySet(old) \cup KeySet(inc)
    /\ \A k \in KeySet(inc) :
         IF Get(inc, k).kind = "string" THEN Get(res, k) = Get(inc, k)
         ELSE IsMergeOf(Get(res, k),
                        IF HasKey(old, k) /\ Get(old, k).kind = "object"
                        THEN Get(old, k) ELSE EmptyObject,
                        Get(inc, k))
    /\ \A k \in KeySet(old) \ KeySet(inc) : Get(res, k) = Get(old, k)

RECURSIVE Untouched(_, _, _)
\* Every key of old that inc lacks has in res the value it has in old, in old
\* itself and in every Branch of old that the merge of inc recurses into.
Untouched(res, old, inc) ==
    \A k \in KeySet(old) :
        /\ HasKey(res, k)
        /\ ~HasKey(inc, k) => Get(res, k) = Get(old, k)
        /\ (HasKey(inc, k) /\ Get(inc, k).kind = "object" /\ Get(old, k).kind = "object")
             => Get(res, k).kind = "object" /\ Untouched(Get(res, k), Get(old, k), Get(inc, k))

RECURSIVE SplitLines(_)
\* text.split('\n')
SplitLines(text) ==
    LET breaks == {i \in 1..Len(text) : text[i] = "\n"}
    IN  IF breaks = {} THEN <<text>>
        ELSE <<SubSeq(text, 1, Min(breaks) - 1)>>
                 \o SplitLines(SubSeq(text, Min(breaks) + 1, Len(text)))

\* The number of spaces a line starts with.
Indentation(line) == Max({n \in 0..Len(line) : \A i \in 1..n : line[i] = " "})

\* The line without its indentation.
Unindented(line) == SubSeq(line, Indentation(line) + 1, Len(line))

IsOpening(line) == line # <<>> /\ line[Len(line)] = "{"

IsClosing(line) == Unindented(line) = <<"}", ";">>

\* The key a line declares: the text between its indentation and its first ":".
LineKey(line) ==
    LET u == Unindented(line)
    IN  SubSeq(u, 1, Min({i \in 1..Len(u) : u[i] = ":"}) - 1)

\* The root keys in the order the body declares them: the keys of the lines at
\* the indentation of depth 0 that are not closing lines.
EmittedRootKeys(text) ==
    LET keyLines == SelectSeq(SplitLines(text),
                        LAMBDA l : Indentation(l) = 6 /\ l # <<>> /\ ~IsClosing(l))
    IN  [i \in 1..Len(keyLines) |-> LineKey(keyLines[i])]

\* How deep line i of lines is nested: the Branches opened and not yet closed
\* before it (a closing line stands at the depth of the line that opened it).
NestingDepth(lines, i) ==
    Cardinality({j \in 1..(i - 1) : IsOpening(lines[j])})
    - Cardinality({j \in 1..i : IsClosing(lines[j])})

RECURSIVE ExpectedLines(_, _)
\* The lines of a Branch's children at depth D: per Leaf key one line
\* "<key>: <signature>;", per Branch key "<key>: {", the lines of its children
\* at depth D + 1 and "};"; the rendering of no children is the empty text.
ExpectedLines(data, D) ==
    IF data.entries = <<>> THEN << <<>> >>
    ELSE Concat([i \in 1..Len(data.entries) |->
            LET key == data.entries[i].key
                val == data.entries[i].val
            IN  IF val.kind = "string"
                THEN << Spaces(6 + 2 * D) \o key \o <<":", " ">>
                          \o generateFunctionSignature(val.str) \o <<";">> >>
                ELSE << Spaces(6 + 2 * D) \o key \o <<":", " ", "{">> >>
                       \o ExpectedLines(val, D + 1)
                       \o << Spaces(6 + 2 * D) \o <<"}", ";">> >>])

(***************************************************************************)
(* Claims about the merger and the emitter                                 *)
(***************************************************************************)
\* C5: in the left fold of deepMerge from an empty Branch, every Leaf of the
\* tree just merged is in the accumulator at its path, whatever was there
\* before, and a root key whose last contributing tree gives a Leaf holds
\* exactly that Leaf.
C5_LastLeafWins ==
    /\ mergeIdx > 0 => LeafWins(merged, localeDataArray[mergeIdx])
    /\ \A k \in LocaleKeys :
         LET givers == {i \in 1..mergeIdx : HasKey(localeDataArray[i], k)}
         IN  (givers # {} /\ Get(localeDataArray[Max(givers)], k).kind = "string")
                 => HasKey(merged, k) /\ Get(merged, k) = Get(localeDataArray[Max(givers)], k)

\* [{a: {b: "x"}}, {a: "{0}"}]: the Branch at a has become the Leaf "{0}".
C5_Witness ==
    /\ mergeIdx = 2
    /\ localeDataArray = << SetProp(EmptyObject, <<"a">>,
                                SetProp(EmptyObject, <<"b">>, Leaf(<<"x">>))),
                            SetProp(EmptyObject, <<"a">>, Leaf(<<"{", "0", "}">>)) >>
    /\ Get(before, <<"a">>).kind = "object"
    /\ merged = SetProp(EmptyObject, <<"a">>, Leaf(<<"{", "0", "}">>))

\* C6: after deepMerge, a key at which the incoming tree has a Branch holds a
\* Branch: the incoming Branch's content alone when the accumulator had nothing
\* or a Leaf there, the merge of the two Branches when it had a Branch.
C6_BranchMerged ==
    mergeIdx > 0 =>
        LET inc == localeDataArray[mergeIdx]
        IN  \A k \in KeySet(inc) :
                Get(inc, k).kind = "object" =>
                    /\ HasKey(merged, k)
                    /\ Get(merged, k).kind = "object"
                    /\ IF HasKey(before, k) /\ Get(before, k).kind = "object"
                       THEN IsMergeOf(Get(merged, k), Get(before, k), Get(inc, k))
                       ELSE Get(merged, k) = Get(inc, k)

\* [{a: "x"}, {a: {c: "{0}"}}]: the Leaf at a has become the Branch {c: "{0}"}.
C6_Witness ==
    /\ mergeIdx = 2
    /\ before = SetProp(EmptyObject, <<"a">>, Leaf(<<"x">>))
    /\ merged = SetProp(EmptyObject, <<"a">>,
                    SetProp(EmptyObject, <<"c">>, Leaf(<<"{", "0", "}">>)))

\* C7: deepMerge leaves every accumulator key the incoming node lacks as it
\* was, at the root and in every Branch the recursion reaches.
C7_AbsentKeysUntouched ==
    mergeIdx > 0 => Untouched(merged, before, localeDataArray[mergeIdx])

\* [{a: {b: "x"}}, {a: {c: "{0}"}}]: b is kept below a, beside the new c.
C7_Witness ==
    /\ mergeIdx = 2
    /\ before = SetProp(EmptyObject, <<"a">>,
                    SetProp(EmptyObject, <<"b">>, Leaf(<<"x">>)))
    /\ merged = SetProp(EmptyObject, <<"a">>,
                    SetProp(SetProp(EmptyObject, <<"b">>, Leaf(<<"x">>)),
                            <<"c">>, Leaf(<<"{", "0", "}">>)))

\* C8 as stated: the root keys are emitted in the order in which they were
\* first seen across the merged trees.
C8_EmittedInFirstSeenOrder ==
    mergePc = "rendered" => EmittedRootKeys(body) = firstSeen

\* C8 as amended: the array-index keys are emitted first, in ascending numeric
\* order, and after them every other key in first-seen order; an overwritten
\* key keeps its place.
C8_EmittedInPropertyOrder ==
    mergePc = "rendered" =>
        LET emitted == EmittedRootKeys(body)
            indices == SelectSeq(emitted, IsArrayIndex)
            others == SelectSeq(emitted, LAMBDA k : ~IsArrayIndex(k))
        IN  /\ emitted = indices \o others
            /\ Range(indices) = {k \in Range(firstSeen) : IsArrayIndex(k)}
            /\ \A i, j \in 1..Len(indices) : i < j => NumericLess(indices[i], indices[j])
            /\ others = SelectSeq(firstSeen, LAMBDA k : ~IsArrayIndex(k))

\* [{a, b}, {c, b}] is emitted a, b, c, with b's value from the second tree.
C8_Witness ==
    /\ mergePc = "rendered"
    /\ Len(localeDataArray) = 2
    /\ KeysOf(localeDataArray[1]) = << <<"a">>, <<"b">> >>
    /\ KeysOf(localeDataArray[2]) = << <<"c">>, <<"b">> >>
    /\ Get(localeDataArray[1], <<"b">>) # Get(localeDataArray[2], <<"b">>)
    /\ EmittedRootKeys(body) = << <<"a">>, <<"b">>, <<"c">> >>
    /\ Get(merged, <<"b">>) = Get(localeDataArray[2], <<"b">>)

\* C9: the body is, line by line, what the tree prescribes: a Leaf key at depth
\* D is the line "<key>: <signature>;", a Branch key the line "<key>: {", the
\* rendering of its children at depth D + 1 and the line "};"; every line that
\* is not empty is indented by 6 + 2 * D spaces, D its nesting depth.
C9_RenderedByDepth ==
    mergePc = "rendered" =>
        LET lines == SplitLines(body)
        IN  /\ lines = ExpectedLines(merged, 0)
            /\ \A i \in 1..Len(lines) :
                 lines[i] # <<>> => Indentation(lines[i]) = 6 + 2 * NestingDepth(lines, i)

\* [{a: {b: {c: "x"}}}, {2: "{0}"}] has been rendered, three depths deep.
C9_Witness ==
    /\ mergePc = "rendered"
    /\ merged = SetProp(SetProp(EmptyObject, <<"a">>,
                    SetProp(EmptyObject, <<"b">>,
                        SetProp(EmptyObject, <<"c">>, Leaf(<<"x">>)))),
                    <<"2">>, Leaf(<<"{", "0", "}">>))
    /\ Len(SplitLines(body)) = 6
    /\ \E i \in 1..6 : Indentation(SplitLines(body)[i]) = 10

(***************************************************************************)
(* Claims about the orchestrator                                           *)
(***************************************************************************)
\* The k-th smallest element of a set of numbers.
KthOf(S, k) == CHOOSE x \in S : Cardinality({y \in S : y < x}) = k - 1

StartsWith(line, prefix) ==
    Len(line) >= Len(prefix) /\ SubSeq(line, 1, Len(prefix)) = prefix

\* C10: the text returned holds one "declare global" line per Source; the k-th
\* opens the block of the k-th Source (its namespace and interface lines, the
\* rendering of that Source's tree, the closing of the interface); it is the bare
\* "declare global {" when there is one Source and carries " // Client k" when
\* there are more; exactly one empty line precedes every block but the first.
C10_OneBlockPerSource ==
    genPc = "returned" =>
        LET lines == SplitLines(output)
            n == Len(tessens)
            declareAt == {i \in 1..Len(lines) : StartsWith(lines[i], DeclareGlobal)}
        IN  /\ Cardinality(declareAt) = n
            /\ \A k \in 1..n :
                 LET d == KthOf(declareAt, k)
                     content == SplitLines(processLocaleData(
                                    extractPlainLocaleDataFromTessen(tessens[k]), 0))
                 IN  /\ lines[d] = DeclareGlobal \o
                           (IF n > 1
                            THEN <<" ", "/", "/", " ", "C", "l", "i", "e", "n", "t", " ">>
                                     \o DecimalString(k)
                            ELSE <<>>)
                     /\ Len(lines) >= d + 3 + Len(content)
                     /\ lines[d + 1] = NamespaceLine
                     /\ lines[d + 2] = InterfaceLine
                     /\ SubSeq(lines, d + 3, d + 2 + Len(content)) = content
                     /\ lines[d + 3 + Len(content)] = <<" ", " ", " ", " ", "}">>
                     /\ IF k = 1 THEN d = 1
                        ELSE lines[d - 1] = <<>> /\ lines[d - 2] # <<>>

\* Two Sources with different trees have been rendered: the block of the second
\* follows the block of the first and carries " // Client 2".
C10_Witness ==
    /\ genPc = "returned"
    /\ Len(tessens) = 2
    /\ extractPlainLocaleDataFromTessen(tessens[1]) = NestedTreeMerged
    /\ extractPlainLocaleDataFromTessen(tessens[2]) = HelloTree
    /\ LET lines == SplitLines(output)
       IN  /\ lines[1] = DeclareGlobal \o <<" ", "/", "/", " ", "C", "l", "i", "e", "n", "t", " ", "1">>
           /\ \E i \in 2..Len(lines) :
                 /\ lines[i] = DeclareGlobal
                        \o <<" ", "/", "/", " ", "C", "l", "i", "e", "n", "t", " ", "2">>
                 /\ lines[i + 3] = <<" ", " ", " ", " ", " ", " ", "a", ":", " ",
                                     "(", ")", " ", "=", ">", " ", "s", "t", "r", "i", "n", "g", ";">>

RECURSIVE AllKeys(_)
\* The keys of a tree at every depth.
AllKeys(obj) ==
    KeySet(obj) \cup UNION {AllKeys(obj.entries[i].val) : i \in 1..Len(obj.entries)}

\* The keys a declaration block declares: the keys of its Leaf lines and of its
\* Branch-opening lines (the lines indented as deep as the interface body).
BlockKeys(declaration) ==
    LET lines == SplitLines(declaration)
    IN  {LineKey(lines[i]) : i \in {n \in 1..Len(lines) :
            /\ Indentation(lines[n]) >= 6
            /\ lines[n] # Spaces(Len(lines[n]))
            /\ ~IsClosing(lines[n])}}

\* C11: no merge happens across Sources. The block pushed for Source k is the
\* same text whatever the locale data of any other Source j is (the number of
\* Sources kept), and a key that only another Source j contributes is declared
\* nowhere in block k. (Stated of the block pushed last: every block is the
\* last one in the state its push leads to, and config.tessens never changes.)
C11_NoMergeAcrossSources ==
    \A k \in {Len(declarations)} \ {0} :
        \A j \in (1..Len(tessens)) \ {k} :
            /\ \A other \in Tessens :
                   DeclarationAt([tessens EXCEPT ![j] = other], k - 1) = declarations[k]
            /\ \A key \in AllKeys(extractPlainLocaleDataFromTessen(tessens[j]))
                              \ AllKeys(extractPlainLocaleDataFromTessen(tessens[k])) :
                   key \notin BlockKeys(declarations[k])

\* Two Sources that contribute different keys have been rendered: the key of
\* the first is absent from the block of the second, and the other way round.
C11_Witness ==
    /\ genPc = "returned"
    /\ Len(tessens) = 2
    /\ extractPlainLocaleDataFromTessen(tessens[1]) = HelloTree
    /\ extractPlainLocaleDataFromTessen(tessens[2]) = OtherTree
    /\ BlockKeys(declarations[1]) = {<<"a">>}
    /\ BlockKeys(declarations[2]) = {<<"b">>}

ExportLine == <<"e", "x", "p", "o", "r", "t", " ", "{", " ", "}", ";">>

\* The lines of the returned text that are the marker line.
ExportLinesOf(text) ==
    LET lines == SplitLines(text)
    IN  {i \in 1..Len(lines) : lines[i] = ExportLine}

\* C13: for one Source or more, the text returned ends with the empty-exports
\* marker line and holds that line exactly once: the blocks are concatenated
\* without it and the single marker follows the last block.
C13_SingleExportMarker ==
    (genPc = "returned" /\ Len(tessens) >= 1) =>
        LET lines == SplitLines(output)
        IN  /\ lines[Len(lines)] = ExportLine
            /\ Cardinality(ExportLinesOf(output)) = 1

\* Two Sources have been rendered and the text returned holds the marker line
\* twice: once after the first block, before the empty line and the second
\* "declare global", and once at the end.
C13_Witness ==
    /\ genPc = "returned"
    /\ Len(tessens) = 2
    /\ LET lines == SplitLines(output)
       IN  /\ Cardinality(ExportLinesOf(output)) = 2
           /\ lines[Len(lines)] = ExportLine
           /\ \E i \in ExportLinesOf(output) :
                 /\ i + 2 <= Len(lines)
                 /\ lines[i + 1] = <<>>
                 /\ StartsWith(lines[i + 2], DeclareGlobal)

(***************************************************************************)
(* Claims about the fallback through resolved content                      *)
(***************************************************************************)
\* The placeholder of index i: "{i}".
GenericPlaceholder(i) == <<"{">> \o DecimalString(i) \o <<"}">>

\* "{0} {1} ... {n-1}": each placeholder but the first preceded by one space.
GenericTemplate(n) ==
    Concat([i \in 1..n |-> (IF i = 1 THEN <<>> ELSE <<" ">>) \o GenericPlaceholder(i - 1)])

\* The parameters _0 .. _n-1, each a string.
GenericParameters(n) ==
    [i \in 1..n |-> [name |-> <<"_">> \o DecimalString(i - 1), type |-> StringType]]

\* "(_0: string, ..., _n-1: string) => string", and "() => string" for n = 0.
GenericSignature(n) ==
    <<"(">>
    \o Concat([i \in 1..n |->
            (IF i = 1 THEN <<>> ELSE <<",", " ">>) \o <<"_">> \o DecimalString(i - 1)
                \o <<":", " ", "s", "t", "r", "i", "n", "g">>])
    \o <<")", " ", "=", ">", " ", "s", "t", "r", "i", "n", "g">>

RECURSIVE CallablesReconstructed(_, _)
\* At every key of cv that holds a callable, plain holds the generic template
\* of the callable's parameter count, whose parameters and signature are the
\* generic ones; Branches are followed.
CallablesReconstructed(cv, plain) ==
    IF cv.kind = "function"
    THEN /\ plain = Leaf(GenericTemplate(cv.length))
         /\ extractParameters(plain.str) = GenericParameters(cv.length)
         /\ generateFunctionSignature(plain.str) = GenericSignature(cv.length)
    ELSE IF cv.kind = "object"
    THEN /\ plain.kind = "object"
         /\ \A i \in 1..Len(cv.entries) :
                cv.entries[i].key \notin FunctionProperties =>
                    /\ HasKey(plain, cv.entries[i].key)
                    /\ CallablesReconstructed(cv.entries[i].val,
                                              Get(plain, cv.entries[i].key))
    ELSE TRUE

\* The callables at the root keys of cv, as pairs of key and parameter count.
RootCallables(cv) ==
    IF cv.kind # "object" THEN {}
    ELSE {<<cv.entries[i].key, cv.entries[i].val.length>> :
             i \in {n \in 1..Len(cv.entries) :
                       /\ cv.entries[n].val.kind = "function"
                       /\ cv.entries[n].key \notin FunctionProperties}}

\* C14: on the fallback path the template reconstructed for a callable of n
\* parameters is "{0} {1} ... {n-1}" (the empty string for n = 0), its parameters
\* are _0 .. _n-1 in increasing order, and the line emitted for its key carries
\* the signature of exactly these n parameters, "() => string" for n = 0.
C14_FallbackTemplate ==
    /\ normPc \in {"extracted", "rendered"} => CallablesReconstructed(contentValue, extractedData)
    /\ normPc = "rendered" =>
          \A c \in RootCallables(contentValue) :
              \E i \in 1..Len(SplitLines(fallbackBody)) :
                  SplitLines(fallbackBody)[i] =
                      Spaces(6) \o c[1] \o <<":", " ">> \o GenericSignature(c[2]) \o <<";">>

\* An object of a callable of three parameters and one of none has been
\* extracted and rendered.
C14_Witness ==
    /\ normPc = "rendered"
    /\ contentValue = CvObject(<< [key |-> <<"a">>, val |-> CvFunction(3)],
                                  [key |-> <<"b">>, val |-> CvFunction(0)] >>)
    /\ Get(extractedData, <<"a">>).str = <<"{", "0", "}", " ", "{", "1", "}", " ", "{", "2", "}">>
    /\ Get(extractedData, <<"b">>).str = <<>>
    /\ Len(SplitLines(fallbackBody)) = 2
    /\ Unindented(SplitLines(fallbackBody)[2]) =
           <<"b", ":", " ", "(", ")", " ", "=", ">", " ", "s", "t", "r", "i", "n", "g", ";">>

(***************************************************************************)
(* Claims about the tree of one Source                                     *)
(***************************************************************************)
\* The trees the raw contents of a locale contribute: the data of every
\* content entry that has data, in iteration order.
RawEntries(locale) ==
    LET withData == SelectSeq(locale.contents.entries, LAMBDA e : e.data # Undefined)
    IN  [i \in 1..Len(withData) |-> withData[i].data]

\* The trees the resolved content of a locale contributes through its first
\* n languages: the plain data of each language that is an object.
ResolvedEntries(locale, n) ==
    LET plain == [i \in 1..Min({n, Len(locale.content)}) |->
                      extractPlainDataFromContentValue(locale.content[i])]
    IN  SelectSeq(plain, LAMBDA d : d.kind = "object")

HasRawContents(locale) == locale.contents # Undefined

\* The locale entries of a Source in iteration order, when the fallback reads
\* the first n languages of a locale without raw contents.
LocaleEntries(tessen, n) ==
    Concat([i \in 1..Len(tessen.locales) |->
               IF HasRawContents(tessen.locales[i]) THEN RawEntries(tessen.locales[i])
               ELSE ResolvedEntries(tessen.locales[i], n)])

\* The most languages a locale of the Source holds (at least one).
LanguagesOf(tessen) ==
    Max({1} \cup {Len(tessen.locales[i].content) : i \in 1..Len(tessen.locales)})

\* The lines of the interface body of a declaration block: those between the
\* interface line and the line that closes the interface.
BodyLines(declaration) ==
    LET lines == SplitLines(declaration)
    IN  SubSeq(lines, 4, Len(lines) - 5)

\* C15 as stated: the tree of a Source is the left fold, from an empty Branch,
\* of every locale entry of the Source: every content entry of the raw
\* contents, and every language of the resolved content on the fallback path.
C15_EveryEntryMerged ==
    \A k \in 1..Len(declarations) :
        BodyLines(declarations[k]) =
            SplitLines(processLocaleData(
                mergeLocaleData(LocaleEntries(tessens[k], LanguagesOf(tessens[k]))), 0))

\* C15: the tree of a Source is the left fold, from an empty Branch, of every
\* content entry (with data) of each locale that has raw contents, and of the
\* first language only of the resolved content of each locale that has none,
\* when that language's plain data is an object; the block renders this tree.
C15_FirstLanguageOnFallback ==
    \A k \in 1..Len(declarations) :
        BodyLines(declarations[k]) =
            SplitLines(processLocaleData(mergeLocaleData(LocaleEntries(tessens[k], 1)), 0))

\* A Source with two raw content entries and a Source with a resolved content
\* of two languages have been rendered: the first block declares the keys of
\* both entries, the second the keys of the first language only (the root key
\* b of the second language is missing).
C15_Witness ==
    /\ genPc = "returned"
    /\ Len(tessens) = 2
    /\ tessens[1] = Tessen(<<Locale(Collection(<<ContentEntry(NestedTree),
                                                  ContentEntry(OtherTree)>>), <<>>)>>)
    /\ Len(tessens[2].locales) = 1
    /\ tessens[2].locales[1].contents = Undefined
    /\ Len(tessens[2].locales[1].content) = 2
    /\ EmittedRootKeys(declarations[1]) = << <<"a">>, <<"c">>, <<"b">> >>
    /\ EmittedRootKeys(declarations[2]) = << <<"a">>, <<"c">> >>
    /\ <<"b">> \in KeySet(extractPlainDataFromContentValue(tessens[2].locales[1].content[2]))

(***************************************************************************)
(* Claims about the objects a merge touches                                *)
(***************************************************************************)
RECURSIVE TreeAt(_, _)
\* The tree the object at addr holds.
TreeAt(h, addr) ==
    Object([i \in 1..Len(h[addr].entries) |->
              [key |-> h[addr].entries[i].key,
               val |-> IF h[addr].entries[i].val.kind = "object"
                       THEN TreeAt(h, h[addr].entries[i].val.addr)
                       ELSE Leaf(h[addr].entries[i].val.str)]])

RECURSIVE ObjectsOf(_, _)
\* The addresses of the object at addr and of every Branch below it.
ObjectsOf(h, addr) ==
    {addr} \cup UNION {ObjectsOf(h, h[addr].entries[i].val.addr) :
                          i \in {n \in 1..Len(h[addr].entries) :
                                    h[addr].entries[n].val.kind = "object"}}

\* C16: while trees are merged into a new accumulator, every input tree holds
\* what it held when it was handed over, and no object of the accumulator (its
\* root or any Branch) is an object of an input tree.
C16_InputsNeitherMutatedNorShared ==
    \A k \in 1..Len(inputRoots) :
        /\ TreeAt(heap, inputRoots[k]) = inputTrees[k]
        /\ accRoot # 0 => ObjectsOf(heap, accRoot) \cap ObjectsOf(heap, inputRoots[k]) = {}

\* Two trees with a Branch at the same key have been merged: the accumulator
\* holds the merge of the two Branches and the first tree still holds its own.
C16_Witness ==
    /\ heapPc = "merging"
    /\ heapIdx = 2
    /\ inputTrees[1] = SetProp(EmptyObject, <<"a">>, SetProp(EmptyObject, <<"b">>, Leaf(<<"x">>)))
    /\ inputTrees[2] = SetProp(EmptyObject, <<"a">>,
                               SetProp(EmptyObject, <<"c">>, Leaf(<<"{", "0", "}">>)))
    /\ TreeAt(heap, accRoot) = mergeLocaleData(inputTrees)
    /\ KeySet(Get(TreeAt(heap, accRoot), <<"a">>)) = {<<"b">>, <<"c">>}
    /\ TreeAt(heap, inputRoots[1]) = inputTrees[1]

(***************************************************************************)
(* Claims about the command line program                                   *)
(***************************************************************************)
\* The calls of performTypeGeneration that have run to their end.
Finished == {id \in 1..started : \A g \in inFlight : g.id # id}

\* The calls that wrote the output file.
Writers == {writes[i].by : i \in 1..Len(writes)}

\* C17: every write of the output file is made by a call that reported no
\* failure and carries the whole text generateLocalizationTypes returns for all
\* the instances that call loaded (one block per instance, the marker line
\* last); the file holds the text of the last write; a call that has ended
\* without writing has reported its failure, and without --watch a reported
\* failure has ended the process with exit code 1.
C17_WrittenOnlyWhenComplete ==
    /\ \A i \in 1..Len(writes) :
          LET w == writes[i]
              lines == SplitLines(w.text)
          IN  /\ w.by \notin reported
              /\ \A j \in 1..Len(w.instances) : w.instances[j].hasLocales
              /\ w.text = generateLocalizationTypes(TessensOf(w.instances))
              /\ Cardinality({n \in 1..Len(lines) : StartsWith(lines[n], DeclareGlobal)})
                    = Len(w.instances)
              /\ lines[Len(lines)] = ExportLine
    /\ file = IF writes = <<>> THEN <<>> ELSE writes[Len(writes)].text
    /\ \A id \in Finished : (id \in Writers) # (id \in reported)
    /\ (~watchOpt /\ reported # {}) => proc = "exited1"

\* With --watch, the initial call has written the text of two instances, and a
\* regeneration that loaded an instance without cache.locales has reported its
\* failure: the file still holds the text of the initial call.
C17_Witness ==
    /\ watchOpt
    /\ proc = "running"
    /\ Len(writes) = 1
    /\ writes[1].by = 1
    /\ Len(writes[1].instances) = 2
    /\ reported = {2}
    /\ Finished = {1, 2}
    /\ file = writes[1].text
    /\ file # <<>>

\* What holds of the timers in every state: at most one is pending, and it is
\* the one the last file event set; every burst of events has started one
\* regeneration or still has its timer pending; a regeneration suspended at
\* its import found the module cache empty when it began to load.
DebounceInvariant ==
    /\ Cardinality(pendingTimers) <= 1
    /\ pendingTimers \subseteq {events}
    /\ regenerateTimeout = events
    /\ watcherOn => (started - 1) + Cardinality(pendingTimers) = bursts
    /\ \A g \in inFlight : g.id > 1 => g.cacheBefore = {}

\* C18: file changes are debounced. At most one regeneration timer is pending;
\* a file event leaves exactly its own timer pending; a regeneration starts
\* only from the timer of the last event, with the module cache cleared, so a
\* burst of events starts one regeneration, after its last event; and a
\* pending timer leads to its regeneration unless a later event replaces it or
\* the process ends.
C18_Debounced ==
    /\ []DebounceInvariant
    /\ [][(events' # events) => pendingTimers' = {events'}]_vars
    /\ [][(started' # started /\ started >= 1) =>
             /\ pendingTimers = {events}
             /\ pendingTimers' = {}
             /\ moduleCache' \subseteq {AbsolutePath}
             /\ \A g \in inFlight' \ inFlight : g.cacheBefore = {}]_vars
    /\ \A t \in 1..MaxEvents :
          (t \in pendingTimers) ~> (started > t \/ events > t \/ proc # "running"
                                      \/ t \notin pendingTimers)

\* A burst of two events has started one regeneration, which is loading.
C18_Witness ==
    /\ watcherOn
    /\ events = 2
    /\ bursts = 1
    /\ started = 2
    /\ pendingTimers = {}
    /\ \E g \in inFlight : g.id = 2 /\ g.cacheBefore = {}
    /\ moduleCache = {AbsolutePath}

\* C19: regenerations do not overlap: at most one call of
\* performTypeGeneration is suspended at its import at any time, and every
\* write of the output file is made by the call started last.
C19_NoOverlap ==
    /\ Cardinality(inFlight) <= 1
    /\ \A i \in 1..Len(writes) : writes[i].by = writes[i].latest

\* The second regeneration started while the first was loading, and wrote
\* first: the last write comes from the older of the two.
C19_Witness ==
    /\ started = 3
    /\ inFlight = {}
    /\ Len(writes) = 3
    /\ writes[2].by = 3
    /\ writes[3].by = 2
    /\ writes[3].text # writes[2].text
    /\ file = writes[3].text

(***************************************************************************)
(* Claims about the lines of a rendered body                               *)
(***************************************************************************)
EndsWith(line, suffix) ==
    Len(line) >= Len(suffix)
    /\ SubSeq(line, Len(line) - Len(suffix) + 1, Len(line)) = suffix

\* "<key>: <signature>;": a line that ends with "=> string;".
IsLeafLine(line) ==
    /\ EndsWith(line, <<"=", ">", " ", "s", "t", "r", "i", "n", "g", ";">>)
    /\ \E i \in 1..Len(line) : line[i] = ":"

\* "<key>: {"
IsOpeningLine(line) == EndsWith(line, <<":", " ", "{">>)

RECURSIVE LeafKeyCount(_)
\* The Leaf keys of a tree, at every depth.
LeafKeyCount(obj) ==
    LET counts == [i \in 1..Len(obj.entries) |->
                      IF obj.entries[i].val.kind = "string" THEN <<"leaf">>
                      ELSE [n \in 1..LeafKeyCount(obj.entries[i].val) |-> "leaf"]]
    IN  Len(Concat(counts))

RECURSIVE BranchKeyCount(_)
\* The Branch keys of a tree, at every depth.
BranchKeyCount(obj) ==
    LET counts == [i \in 1..Len(obj.entries) |->
                      IF obj.entries[i].val.kind = "string" THEN <<>>
                      ELSE <<"branch">>
                             \o [n \in 1..BranchKeyCount(obj.entries[i].val) |-> "branch"]]
    IN  Len(Concat(counts))

RECURSIVE EmptyBranchCount(_)
\* The Branches without children of a tree, the root included.
EmptyBranchCount(obj) ==
    IF obj.entries = <<>> THEN 1
    ELSE LET counts == [i \in 1..Len(obj.entries) |->
                          IF obj.entries[i].val.kind = "string" THEN <<>>
                          ELSE [n \in 1..EmptyBranchCount(obj.entries[i].val) |-> "empty"]]
         IN  Len(Concat(counts))

\* Every opening line is matched by one later closing line: no closing line
\* comes before its opening, and there are as many of the one as of the other.
OpeningsMatched(lines) ==
    /\ \A i \in 1..Len(lines) :
          Cardinality({j \in 1..i : IsClosing(lines[j])})
              <= Cardinality({j \in 1..i : IsOpeningLine(lines[j])})
    /\ Cardinality({j \in 1..Len(lines) : IsClosing(lines[j])})
          = Cardinality({j \in 1..Len(lines) : IsOpeningLine(lines[j])})

\* C20 as stated: for every tree, an empty Branch and the empty root included,
\* every line of the body is a Leaf line, an opening line or a closing line,
\* the openings are matched, and the lines number Leaf keys + 2 x Branch keys.
C20_EveryLineDeclares ==
    mergePc = "rendered" =>
        LET lines == SplitLines(body)
        IN  /\ \A i \in 1..Len(lines) :
                  IsLeafLine(lines[i]) \/ IsOpeningLine(lines[i]) \/ IsClosing(lines[i])
            /\ OpeningsMatched(lines)
            /\ Len(lines) = LeafKeyCount(merged) + 2 * BranchKeyCount(merged)

\* C20: every line of the body is a Leaf line, an opening line, a closing line
\* or an empty line; there is one empty line per Branch without children,
\* standing between the opening and the closing line of that Branch (for the
\* empty root the body is the empty text, one empty line when split); the
\* openings are matched; and the lines number
\* Leaf keys + 2 x Branch keys + Branches without children.
C20_LinesAndEmptyBranches ==
    mergePc = "rendered" =>
        LET lines == SplitLines(body)
            blank == {i \in 1..Len(lines) : lines[i] = <<>>}
        IN  /\ \A i \in 1..Len(lines) :
                  \/ IsLeafLine(lines[i])
                  \/ IsOpeningLine(lines[i])
                  \/ IsClosing(lines[i])
                  \/ lines[i] = <<>>
            /\ Cardinality(blank) = EmptyBranchCount(merged)
            /\ \A i \in blank :
                  \/ merged = EmptyObject /\ body = <<>>
                  \/ /\ 1 < i /\ i < Len(lines)
                     /\ IsOpeningLine(lines[i - 1])
                     /\ IsClosing(lines[i + 1])
            /\ OpeningsMatched(lines)
            /\ Len(lines) = LeafKeyCount(merged) + 2 * BranchKeyCount(merged)
                              + EmptyBranchCount(merged)

\* A tree with a Leaf and a Branch without children has been rendered: four
\* lines, the third of them empty.
C20_Witness ==
    /\ mergePc = "rendered"
    /\ merged = SetProp(SetProp(EmptyObject, <<"b">>, Leaf(<<"x">>)), <<"a">>, EmptyObject)
    /\ Len(SplitLines(body)) = 4
    /\ IsLeafLine(SplitLines(body)[1])
    /\ IsOpeningLine(SplitLines(body)[2])
    /\ SplitLines(body)[3] = <<>>
    /\ IsClosing(SplitLines(body)[4])

====
